---- MODULE Spec2Model ----
(***************************************************************************)
(* Model of scripts/bucket.py: create_bucket(region) provisions one S3     *)
(* bucket for static website hosting through four blocking boto3 calls     *)
(* inside one try block whose only handler is `except ClientError`.        *)
(*                                                                         *)
(* A process is one run of the script's interpreter; it may invoke         *)
(* create_bucket again after an invocation has ended (a re-run).  The      *)
(* processes share nothing but the remote bucket.                          *)
(***************************************************************************)
EXTENDS Naturals, Sequences, FiniteSets, TLC

\* How many invocations each process may start.
MaxRuns == 2

Procs == {"p1", "p2"}

\* Region arguments tried: the default of line 5, the legacy region of
\* line 12, and one more non-legacy region.
Regions == {"sa-east-1", "us-east-1", "eu-west-1"}

VARIABLES
    pc,         \* pc[p]: where process p stands in create_bucket
    region,     \* region[p]: the region argument of p's invocation
    calls,      \* calls[p]: the requests p's invocation has issued, in order
    results,    \* results[p]: the outcome of each call that has returned
    out,        \* out[p]: the lines the invocation has printed
    exc,        \* exc[p]: the exception raised by the failed call, if any
    runs,       \* runs[p]: invocations p has started
    remote,     \* remote[op]: the configuration the service holds for op
    owner,      \* the invocation whose create_bucket the service accepted
    sawBucket   \* sawBucket[p]: the bucket existed when p's invocation began

vars == <<pc, region, calls, results, out, exc, runs, remote, owner, sawBucket>>

-----------------------------------------------------------------------------
(* Constants and payloads of create_bucket                                 *)

bucket_name == "cloud-app-project-1"

DefaultRegion == "sa-east-1"

LegacyRegion == "us-east-1"

\* The order of the four remote calls in the try block.
Order == <<"create_bucket", "put_public_access_block",
           "put_bucket_website", "put_bucket_policy">>

\* The region test left out: the location constraint sent for every region.
CreateBucketRequest_AlwaysConstrained(r) ==
    [op |-> "create_bucket", Bucket |-> bucket_name,
     CreateBucketConfiguration |-> [LocationConstraint |-> r]]

\* if region != 'us-east-1': create_bucket(Bucket, CreateBucketConfiguration)
\* else: create_bucket(Bucket)
CreateBucketRequest(r) ==
    IF r # LegacyRegion
    THEN [op |-> "create_bucket", Bucket |-> bucket_name,
          CreateBucketConfiguration |-> [LocationConstraint |-> r]]
    ELSE [op |-> "create_bucket", Bucket |-> bucket_name]

PublicAccessBlockConfiguration ==
    [BlockPublicAcls |-> FALSE, IgnorePublicAcls |-> FALSE,
     BlockPublicPolicy |-> FALSE, RestrictPublicBuckets |-> FALSE]

PublicAccessBlockRequest ==
    [op |-> "put_public_access_block", Bucket |-> bucket_name,
     PublicAccessBlockConfiguration |-> PublicAccessBlockConfiguration]

WebsiteConfiguration ==
    [ErrorDocument |-> [Key |-> "error.html"],
     IndexDocument |-> [Suffix |-> "index.html"]]

WebsiteRequest ==
    [op |-> "put_bucket_website", Bucket |-> bucket_name,
     WebsiteConfiguration |-> WebsiteConfiguration]

bucket_policy_wildcard ==
    [Version |-> "2012-10-17",
     Statement |-> << [Sid |-> "PublicReadGetObject", Effect |-> "Allow",
                       Principal |-> "*", Action |-> "s3:*",
                       Resource |-> "arn:aws:s3:::" \o bucket_name \o "/*"] >>]

bucket_policy ==
    [Version |-> "2012-10-17",
     Statement |-> << [Sid |-> "PublicReadGetObject", Effect |-> "Allow",
                       Principal |-> "*", Action |-> "s3:GetObject",
                       Resource |-> "arn:aws:s3:::" \o bucket_name \o "/*"] >>]

\* json.dumps: the JSON text of a document, kept as the document tagged as
\* text (the Policy argument is a string, not a dict).
json_dumps(doc) == [json |-> doc]

PolicyRequest ==
    [op |-> "put_bucket_policy", Bucket |-> bucket_name,
     Policy |-> json_dumps(bucket_policy)]

\* f'http://{bucket_name}.s3-website-{region}.amazonaws.com'
WebsiteUrl(r) == "http://" \o bucket_name \o ".s3-website-" \o r \o ".amazonaws.com"

StartLine == "Criando o bucket " \o bucket_name
SuccessLine == "Bucket configurado com sucesso!"
UrlLine(r) == "URL: " \o WebsiteUrl(r)
ErrorLine(detail) == "Erro: " \o detail

-----------------------------------------------------------------------------
(* The remote service and the exceptions boto3 raises                      *)

\* The ways each remote call can fail.
FailureModes(op) ==
    CASE op = "create_bucket" ->
            {"BucketAlreadyExists", "AccessDenied",
             "InvalidLocationConstraint", "NetworkFailure"}
      [] op = "put_bucket_policy" ->
            {"AccessDenied", "MalformedPolicy", "NetworkFailure"}
      [] OTHER -> {"AccessDenied", "NetworkFailure"}

BucketExists == remote["create_bucket"] # {}

\* What the service may answer to a request: it rejects the creation of a
\* bucket that already exists, and may accept or fail anything else.
Outcomes(req) ==
    IF req.op = "create_bucket" /\ BucketExists
    THEN FailureModes(req.op)
    ELSE {"ok"} \cup FailureModes(req.op)

\* An error response of the service is raised as botocore's ClientError; a
\* request that never got a response is raised as EndpointConnectionError,
\* a BotoCoreError, which is no subclass of ClientError.
ExceptionClass(mode) ==
    IF mode = "NetworkFailure" THEN "EndpointConnectionError" ELSE "ClientError"

\* str(e) of the exception
ErrorDetail(mode, op) ==
    IF mode = "NetworkFailure"
    THEN "Could not connect to the endpoint URL"
    ELSE "An error occurred (" \o mode \o ") when calling the " \o op \o " operation"

NoExc == [cls |-> "none", detail |-> ""]

\* except ClientError as e
IsCaught(cls) == cls = "ClientError"

-----------------------------------------------------------------------------
(* Control flow of create_bucket                                           *)

\* The policy attached right after the creation, before the public-access
\* block is lifted.
NextStep_PolicyFirst(op) ==
    CASE op = "create_bucket" -> "put_bucket_policy"
      [] op = "put_bucket_policy" -> "put_public_access_block"
      [] op = "put_public_access_block" -> "put_bucket_website"
      [] op = "put_bucket_website" -> "report"

\* The public-access block lifted last, after the policy.
NextStep_BlockLast(op) ==
    CASE op = "create_bucket" -> "put_bucket_website"
      [] op = "put_bucket_website" -> "put_bucket_policy"
      [] op = "put_bucket_policy" -> "put_public_access_block"
      [] op = "put_public_access_block" -> "report"

\* The statement after the call of op returns.
NextStep(op) ==
    CASE op = "create_bucket" -> "put_public_access_block"
      [] op = "put_public_access_block" -> "put_bucket_website"
      [] op = "put_bucket_website" -> "put_bucket_policy"
      [] op = "put_bucket_policy" -> "report"

Ended(p) == pc[p] \in {"returned", "raised"}

InFlight(p) == pc[p] = "wait"

LastCall(p) == calls[p][Len(calls[p])]

Init ==
    /\ pc = [p \in Procs |-> "start"]
    /\ region = [p \in Procs |-> DefaultRegion]
    /\ calls = [p \in Procs |-> <<>>]
    /\ results = [p \in Procs |-> <<>>]
    /\ out = [p \in Procs |-> <<>>]
    /\ exc = [p \in Procs |-> NoExc]
    /\ runs = [p \in Procs |-> 0]
    /\ remote = [op \in {Order[i] : i \in 1..Len(Order)} |-> {}]
    /\ owner = <<>>
    /\ sawBucket = [p \in Procs |-> FALSE]

\* create_bucket(region) is entered: the client is built, the try block is
\* entered and the first line is printed.
Begin(p) ==
    /\ pc[p] = "start" \/ Ended(p)
    /\ runs[p] < MaxRuns
    /\ \E r \in Regions : region' = [region EXCEPT ![p] = r]
    /\ runs' = [runs EXCEPT ![p] = @ + 1]
    /\ calls' = [calls EXCEPT ![p] = <<>>]
    /\ results' = [results EXCEPT ![p] = <<>>]
    /\ exc' = [exc EXCEPT ![p] = NoExc]
    /\ out' = [out EXCEPT ![p] = <<StartLine>>]
    /\ sawBucket' = [sawBucket EXCEPT ![p] = BucketExists]
    /\ pc' = [pc EXCEPT ![p] = "create_bucket"]
    /\ UNCHANGED <<remote, owner>>

\* Each call action sends its request; the process then blocks (pc = "wait")
\* until the reply.

\* The creation held back while another process has its creation in flight.
CreateBucket_Locked(p) ==
    /\ pc[p] = "create_bucket"
    /\ \A q \in Procs \ {p} : ~(pc[q] = "wait" /\ Len(calls[q]) = 1)
    /\ calls' = [calls EXCEPT ![p] = Append(@, CreateBucketRequest(region[p]))]
    /\ pc' = [pc EXCEPT ![p] = "wait"]
    /\ UNCHANGED <<region, results, out, exc, runs, remote, owner, sawBucket>>

\* s3.create_bucket(...), either branch of the region test
CreateBucket(p) ==
    /\ pc[p] = "create_bucket"
    /\ calls' = [calls EXCEPT ![p] = Append(@, CreateBucketRequest(region[p]))]
    /\ pc' = [pc EXCEPT ![p] = "wait"]
    /\ UNCHANGED <<region, results, out, exc, runs, remote, owner, sawBucket>>

\* s3.put_public_access_block(...)
PutPublicAccessBlock(p) ==
    /\ pc[p] = "put_public_access_block"
    /\ calls' = [calls EXCEPT ![p] = Append(@, PublicAccessBlockRequest)]
    /\ pc' = [pc EXCEPT ![p] = "wait"]
    /\ UNCHANGED <<region, results, out, exc, runs, remote, owner, sawBucket>>

\* s3.put_bucket_website(...)
PutBucketWebsite(p) ==
    /\ pc[p] = "put_bucket_website"
    /\ calls' = [calls EXCEPT ![p] = Append(@, WebsiteRequest)]
    /\ pc' = [pc EXCEPT ![p] = "wait"]
    /\ UNCHANGED <<region, results, out, exc, runs, remote, owner, sawBucket>>

\* s3.put_bucket_policy(...)
PutBucketPolicy(p) ==
    /\ pc[p] = "put_bucket_policy"
    /\ calls' = [calls EXCEPT ![p] = Append(@, PolicyRequest)]
    /\ pc' = [pc EXCEPT ![p] = "wait"]
    /\ UNCHANGED <<region, results, out, exc, runs, remote, owner, sawBucket>>

\* The service accepts the request in flight and the call returns.
ReplyOk(p) ==
    /\ InFlight(p)
    /\ "ok" \in Outcomes(LastCall(p))
    /\ remote' = [remote EXCEPT ![LastCall(p).op] = {LastCall(p)}]
    /\ owner' = IF LastCall(p).op = "create_bucket" THEN <<p, runs[p]>> ELSE owner
    /\ results' = [results EXCEPT ![p] = Append(@, "ok")]
    /\ pc' = [pc EXCEPT ![p] = NextStep(LastCall(p).op)]
    /\ UNCHANGED <<region, calls, out, exc, runs, sawBucket>>

\* The failure of a call reported and stepped over: the next call is made.
ReplyError_Continue(p) ==
    /\ InFlight(p)
    /\ \E m \in Outcomes(LastCall(p)) \ {"ok"} :
        /\ results' = [results EXCEPT ![p] = Append(@, m)]
        /\ exc' = [exc EXCEPT ![p] = [cls |-> ExceptionClass(m),
                                      detail |-> ErrorDetail(m, LastCall(p).op)]]
    /\ pc' = [pc EXCEPT ![p] = NextStep(LastCall(p).op)]
    /\ UNCHANGED <<region, calls, out, runs, remote, owner, sawBucket>>

\* The call in flight fails: it raises, and the try block is left.
ReplyError(p) ==
    /\ InFlight(p)
    /\ \E m \in Outcomes(LastCall(p)) \ {"ok"} :
        /\ results' = [results EXCEPT ![p] = Append(@, m)]
        /\ exc' = [exc EXCEPT ![p] = [cls |-> ExceptionClass(m),
                                      detail |-> ErrorDetail(m, LastCall(p).op)]]
    /\ pc' = [pc EXCEPT ![p] = "unwind"]
    /\ UNCHANGED <<region, calls, out, runs, remote, owner, sawBucket>>

\* A handler that cleans up: it deletes the bucket before it returns.
Except_Rollback(p) ==
    /\ pc[p] = "unwind"
    /\ IsCaught(exc[p].cls)
    /\ out' = [out EXCEPT ![p] = Append(@, ErrorLine(exc[p].detail))]
    /\ pc' = [pc EXCEPT ![p] = "returned"]
    /\ remote' = [op \in DOMAIN remote |-> {}]
    /\ owner' = <<>>
    /\ UNCHANGED <<region, calls, results, exc, runs, sawBucket>>

\* except ClientError as e: print(f'Erro: {e}')
Except(p) ==
    /\ pc[p] = "unwind"
    /\ IsCaught(exc[p].cls)
    /\ out' = [out EXCEPT ![p] = Append(@, ErrorLine(exc[p].detail))]
    /\ pc' = [pc EXCEPT ![p] = "returned"]
    /\ UNCHANGED <<region, calls, results, exc, runs, remote, owner, sawBucket>>

\* No handler matches: the exception leaves create_bucket.
Propagate(p) ==
    /\ pc[p] = "unwind"
    /\ ~IsCaught(exc[p].cls)
    /\ pc' = [pc EXCEPT ![p] = "raised"]
    /\ UNCHANGED <<region, calls, results, out, exc, runs, remote, owner, sawBucket>>

\* The two prints that end the try block.
ReportSuccess(p) ==
    /\ pc[p] = "report"
    /\ out' = [out EXCEPT ![p] = @ \o <<SuccessLine, UrlLine(region[p])>>]
    /\ pc' = [pc EXCEPT ![p] = "returned"]
    /\ UNCHANGED <<region, calls, results, exc, runs, remote, owner, sawBucket>>

Next ==
    \E p \in Procs :
        \/ Begin(p)
        \/ CreateBucket(p)
        \/ PutPublicAccessBlock(p)
        \/ PutBucketWebsite(p)
        \/ PutBucketPolicy(p)
        \/ ReplyOk(p)
        \/ ReplyError(p)
        \/ Except(p)
        \/ Propagate(p)
        \/ ReportSuccess(p)

Spec == Init /\ [][Next]_vars

\* if __name__ == '__main__': create_bucket()  -- the interpreter's exit
\* status once the invocation has ended.
ExitCode(p) == IF pc[p] = "raised" THEN 1 ELSE 0

-----------------------------------------------------------------------------
(* Vocabulary of the properties                                            *)

OpsIssued(p) == [i \in 1..Len(calls[p]) |-> calls[p][i].op]

Printed(p, line) == \E i \in 1..Len(out[p]) : out[p][i] = line

AllOk(p) ==
    /\ Len(results[p]) = Len(Order)
    /\ \A i \in 1..Len(results[p]) : results[p][i] = "ok"

\* The call of step k is the one that failed (the first and only failure).
FailedAt(p, k) ==
    /\ k \in 1..Len(results[p])
    /\ results[p][k] # "ok"
    /\ \A j \in 1..(k - 1) : results[p][j] = "ok"

Failed(p) == \E k \in 1..Len(Order) : FailedAt(p, k)

ErrorPrinted(p) ==
    \E i \in 1..Len(out[p]) : out[p][i] = ErrorLine(exc[p].detail) /\ exc[p] # NoExc

SuccessPrinted(p) ==
    Printed(p, SuccessLine) \/ Printed(p, UrlLine(region[p]))

-----------------------------------------------------------------------------
\* C1: in an invocation whose four remote calls are all accepted, the calls
\* issued are exactly create_bucket, put_public_access_block,
\* put_bucket_website, put_bucket_policy, once each and in that order; a
\* call is issued only when every earlier one has returned; the success URL
\* is printed only after the fourth has returned.
C1_HappyPathOrder ==
    \A p \in Procs :
        /\ Len(calls[p]) <= Len(results[p]) + 1
        /\ Len(calls[p]) = Len(results[p]) + 1 <=> InFlight(p)
        /\ AllOk(p) => OpsIssued(p) = Order
        /\ AllOk(p) /\ Ended(p) =>
              out[p] = <<StartLine, SuccessLine, UrlLine(region[p])>>
        /\ SuccessPrinted(p) => AllOk(p)

C1_Witness ==
    \E p \in Procs :
        /\ AllOk(p) /\ pc[p] = "returned"
        /\ region[p] = "sa-east-1"
        /\ out[p][3] = "URL: http://cloud-app-project-1.s3-website-sa-east-1.amazonaws.com"

\* C4: put_bucket_policy is issued only after put_public_access_block has
\* returned successfully in the same invocation: in no state has the policy
\* been sent while the invocation has not lifted the public-access block.
C4_BlockBeforePolicy ==
    \A p \in Procs : \A i \in 1..Len(calls[p]) :
        calls[p][i].op = "put_bucket_policy" =>
            \E j \in 1..(i - 1) :
                /\ calls[p][j].op = "put_public_access_block"
                /\ j <= Len(results[p])
                /\ results[p][j] = "ok"

C4_Witness ==
    \E p \in Procs :
        /\ InFlight(p)
        /\ LastCall(p).op = "put_bucket_policy"
        /\ remote["put_public_access_block"] # {}

\* C5: the create-bucket request carries a location constraint equal to the
\* region when the region is not 'us-east-1' and no location-constraint
\* payload at all when it is 'us-east-1'; one create-bucket request is
\* issued in either branch.
C5_LocationConstraint ==
    \A p \in Procs :
        Len(calls[p]) >= 1 =>
            /\ Cardinality({i \in 1..Len(calls[p]) :
                               calls[p][i].op = "create_bucket"}) = 1
            /\ calls[p][1].op = "create_bucket"
            /\ region[p] # "us-east-1" =>
                  /\ "CreateBucketConfiguration" \in DOMAIN calls[p][1]
                  /\ calls[p][1].CreateBucketConfiguration =
                         [LocationConstraint |-> region[p]]
            /\ region[p] = "us-east-1" =>
                  DOMAIN calls[p][1] = {"op", "Bucket"}

C5_Witness ==
    \E p, q \in Procs :
        /\ region[p] = "us-east-1" /\ Len(calls[p]) >= 1
        /\ region[q] = "eu-west-1" /\ Len(calls[q]) >= 1

\* C2: every remote call that fails, whatever the failure mode, is caught
\* by the procedure, which prints one line with the error detail and
\* returns normally: no exception leaves create_bucket and the exit code
\* is 0.
C2_EveryFailureCaught ==
    \A p \in Procs :
        /\ pc[p] # "raised"
        /\ ExitCode(p) = 0
        /\ Failed(p) /\ Ended(p) =>
              Cardinality({i \in 1..Len(out[p]) :
                              out[p][i] = ErrorLine(exc[p].detail)}) = 1

\* C3: when the call of step k fails, no call of a later step is issued in
\* that invocation, the error is reported, and neither the success message
\* nor the URL is printed.
C3_StopAtFirstFailure ==
    \A p \in Procs : \A k \in 1..Len(Order) :
        FailedAt(p, k) =>
            /\ Len(calls[p]) = k
            /\ Ended(p) => ErrorPrinted(p)
            /\ ~SuccessPrinted(p)

\* C7: the success URL is printed exactly when all four remote calls of
\* the invocation succeeded, it is
\* 'http://cloud-app-project-1.s3-website-' + region + '.amazonaws.com',
\* and an invocation prints either the success URL or the error line,
\* never both.
C7_UrlOrError ==
    \A p \in Procs :
        LET url == "URL: http://cloud-app-project-1.s3-website-"
                       \o region[p] \o ".amazonaws.com"
            urlPrinted == \E i \in 1..Len(out[p]) :
                             out[p][i] # StartLine /\ out[p][i] # SuccessLine
                             /\ out[p][i] # ErrorLine(exc[p].detail)
        IN  /\ urlPrinted => AllOk(p) /\ Printed(p, url)
            /\ AllOk(p) /\ Ended(p) => Printed(p, url)
            /\ Ended(p) => (Printed(p, url) # ErrorPrinted(p))

\* C6: there is no rollback.  The procedure issues no call but the four
\* configuration calls, so once step k in {2,3,4} has failed the service
\* holds the created bucket with the configurations of the steps before k
\* and none of step k or later, and it is left so when the procedure ends.
C6_NoRollback ==
    \A p \in Procs :
        /\ \A i \in 1..Len(calls[p]) :
              \E j \in 1..Len(Order) : calls[p][i].op = Order[j]
        /\ \A k \in 2..Len(Order) :
              FailedAt(p, k) =>
                  /\ \A j \in 1..(k - 1) : remote[Order[j]] = {calls[p][j]}
                  /\ \A j \in k..Len(Order) : remote[Order[j]] = {}

C6_Witness ==
    \E p \in Procs :
        /\ FailedAt(p, 3)
        /\ pc[p] = "returned"
        /\ remote["put_public_access_block"] # {}
        /\ remote["put_bucket_website"] = {}

\* C8: the payloads of steps 2-4 are constants, whatever the region and the
\* prior state of the bucket: the public-access block sets its four flags
\* to false, the website configuration names index.html and error.html, the
\* policy allows principal '*' the action 's3:GetObject' on
\* 'arn:aws:s3:::cloud-app-project-1/*', and all four calls name the
\* bucket 'cloud-app-project-1'.
C8_ConstantPayloads ==
    \A p \in Procs : \A i \in 1..Len(calls[p]) :
        LET req == calls[p][i]
        IN  /\ req.Bucket = "cloud-app-project-1"
            /\ req.op = "put_public_access_block" =>
                  req.PublicAccessBlockConfiguration =
                      [BlockPublicAcls |-> FALSE, IgnorePublicAcls |-> FALSE,
                       BlockPublicPolicy |-> FALSE,
                       RestrictPublicBuckets |-> FALSE]
            /\ req.op = "put_bucket_website" =>
                  /\ req.WebsiteConfiguration.IndexDocument.Suffix = "index.html"
                  /\ req.WebsiteConfiguration.ErrorDocument.Key = "error.html"
            /\ req.op = "put_bucket_policy" =>
                  /\ Len(req.Policy.json.Statement) = 1
                  /\ req.Policy.json.Statement[1].Effect = "Allow"
                  /\ req.Policy.json.Statement[1].Principal = "*"
                  /\ req.Policy.json.Statement[1].Action = "s3:GetObject"
                  /\ req.Policy.json.Statement[1].Resource =
                         "arn:aws:s3:::cloud-app-project-1/*"

C8_Witness ==
    \E p, q \in Procs :
        /\ Len(calls[p]) = Len(Order)
        /\ region[p] = "us-east-1"
        /\ sawBucket[q] /\ Len(calls[q]) = 1

\* C9: concurrent invocations on the one bucket name are unguarded: an
\* invocation about to create the bucket is never held back, whatever the
\* other invocation is doing, and the requests name the same bucket; so
\* both can have their create_bucket in flight at once.
C9_CreateUnguarded ==
    \A p \in Procs :
        pc[p] = "create_bucket" =>
            /\ ENABLED CreateBucket(p)
            /\ \A q \in Procs :
                  Len(calls[q]) >= 1 =>
                      calls[q][1].Bucket = CreateBucketRequest(region[p]).Bucket

C9_Witness ==
    \A p \in Procs :
        /\ InFlight(p)
        /\ Len(calls[p]) = 1 /\ Len(results[p]) = 0
        /\ calls[p][1].op = "create_bucket"
        /\ calls[p][1].Bucket = "cloud-app-project-1"

\* C10: against a service that rejects the creation of an existing bucket,
\* an invocation begun when the bucket exists fails at step 1 and issues
\* none of the three configuration calls, and once the invocation that
\* created the bucket has ended the configuration held by the service
\* never changes again: a partial configuration stays partial.
OwnerEnded ==
    /\ owner # <<>>
    /\ runs[owner[1]] # owner[2] \/ Ended(owner[1])

C10_LaterRunsFailAtCreate ==
    \A p \in Procs :
        sawBucket[p] =>
            /\ Len(calls[p]) <= 1
            /\ Len(results[p]) >= 1 => results[p][1] # "ok"

C10_NoRepair ==
    /\ []C10_LaterRunsFailAtCreate
    /\ [][OwnerEnded => remote' = remote]_vars

C10_Witness ==
    \E p, q \in Procs :
        /\ p # q
        /\ owner = <<p, 1>>
        /\ FailedAt(p, 2) /\ Ended(p)
        /\ runs[q] = MaxRuns
        /\ sawBucket[q] /\ FailedAt(q, 1) /\ Ended(q)
        /\ remote["put_public_access_block"] = {}

====
